---- MODULE Spec2Model ----
(***************************************************************************)
(* scholar.js: the publication fetcher and renderer of the site.           *)
(*                                                                         *)
(* Conventions for JavaScript values:                                      *)
(*   - an optional number (year, citationCount) is a sequence of length    *)
(*     at most one: <<>> is undefined/null, <<n>> is the number n;         *)
(*   - a cursor (data.next, currentOffset) is a natural number, 0 standing *)
(*     for every falsy value (undefined, null, 0);                         *)
(*   - a text is a sequence of characters, <<>> standing for every falsy   *)
(*     text (undefined, null, '');                                         *)
(*   - an element of a data array is a record or the JSON value null.      *)
(***************************************************************************)
EXTENDS Integers, Sequences, FiniteSets, TLC

VARIABLES
    pc,             \* position of the page: Idle, AwaitInitial, AwaitPage, Rendered, ErrorRendered,
                    \* RenderCall (a direct call of renderPublications), ElementCall, ElementDone
    papers,         \* fetchScholarData: let papers
    allPapers,      \* fetchRemainingPapers: const allPapers
    currentOffset,  \* fetchRemainingPapers: let currentOffset
    reqOffset,      \* offset parameter of the request in flight (<<>>: the initial request)
    requests,       \* number of requests issued by fetch()
    lastResp,       \* the last response received
    initialKind,    \* history: how the initial request ended
    received,       \* history: items of the pages the code accepted, in arrival order
    filterInput,    \* history: <<list>> once papers.filter ran on list
    renderInput,    \* <<list>> once renderPublications was called with list
    currentYear,    \* <<y>> once new Date().getFullYear() was read as y
    containerFound, \* <<b>> once getElementById('publications-list') was evaluated
    renderErrorCalls, \* number of calls of renderError
    container,      \* content of the element #publications-list
    paper,          \* argument of createPaperElement
    el              \* the element createPaperElement returns

vars == <<pc, papers, allPapers, currentOffset, reqOffset, requests, lastResp, initialKind,
          received,           filterInput, renderInput, currentYear, containerFound,
          renderErrorCalls, container, paper, el>>

\* ---------------------------------------------------------------- constants

RECENT_YEAR_COUNT == 4

\* ---------------------------------------------------------------- bounds

MaxRecords == 3      \* data-array elements the server sends during one page load
MaxCursor == 2       \* cursors are 1..MaxCursor
MaxRequests == 3     \* requests counted by the model
LiveMaxRecords == 1  \* data-array elements the server sends when pagination is unbounded
MinYear == 2020      \* publication years are MinYear..MaxYear
MaxYear == 2021
LastCurrentYear == 2024   \* the clock reads LastCurrentYear-1 or LastCurrentYear
MaxCite == 1         \* citation counts are 0..MaxCite
MaxRenderLen == 3    \* length of a list given directly to renderPublications
MaxTextLen == 1      \* length of a text field of a record
MaxAuthors == 1      \* authors of a record

\* ---------------------------------------------------------------- values

SeqsUpTo(S, n) == UNION {[1..k -> S] : k \in 0..n}

OptYears == {<<>>, <<0>>} \cup {<<y>> : y \in MinYear..MaxYear}
OptCites == {<<>>} \cup {<<c>> : c \in 0..MaxCite}

NullEntry == [isNull |-> TRUE, year |-> <<>>, citationCount |-> <<>>]
Records == {[isNull |-> FALSE, year |-> y, citationCount |-> c] : y \in OptYears, c \in OptCites}

\* what the server sends: years around the cutoff, a missing year, a null element
ApiYears == {<<>>, <<0>>} \cup {<<y>> : y \in (LastCurrentYear - RECENT_YEAR_COUNT)..(LastCurrentYear - RECENT_YEAR_COUNT + 1)}
ApiCites == {<<MaxCite>>}
Entries == {[isNull |-> FALSE, year |-> y, citationCount |-> c] : y \in ApiYears, c \in ApiCites}
           \cup {NullEntry}

CurrentYears == (LastCurrentYear - 1)..LastCurrentYear

\* x || 0 for an optional number
OrZero(x) == IF x = <<>> THEN 0 ELSE x[1]

\* truthiness of an optional number
Truthy(x) == x # <<>> /\ x[1] # 0

\* ---------------------------------------------------------------- filter (lines 41-43)

CutoffYear_offByOne(cy) == cy - RECENT_YEAR_COUNT

CutoffYear(cy) == cy - RECENT_YEAR_COUNT + 1

\* p => p.year && p.year >= cutoffYear, on a non-null element
IsRecent(p, cutoffYear) == Truthy(p.year) /\ p.year[1] >= cutoffYear

\* reading p.year of null throws a TypeError
FilterThrows(list) == \E i \in 1..Len(list) : list[i].isNull

RECURSIVE FilterRecent(_, _)
FilterRecent(list, cutoffYear) ==
    IF list = <<>> THEN <<>>
    ELSE (IF IsRecent(Head(list), cutoffYear) THEN <<Head(list)>> ELSE <<>>)
         \o FilterRecent(Tail(list), cutoffYear)

\* ---------------------------------------------------------------- sort (lines 76-80)

ComparePapers_citationsAscending(a, b) ==
    LET yearDiff == OrZero(b.year) - OrZero(a.year)
    IN  IF yearDiff # 0 THEN yearDiff
        ELSE OrZero(a.citationCount) - OrZero(b.citationCount)

ComparePapers(a, b) ==
    LET yearDiff == OrZero(b.year) - OrZero(a.year)
    IN  IF yearDiff # 0 THEN yearDiff
        ELSE OrZero(b.citationCount) - OrZero(a.citationCount)

\* Array.prototype.sort is stable: x goes after the last element that does not sort after it
InsertPaper(sorted, x) ==
    LET before == {i \in 1..Len(sorted) : ComparePapers(sorted[i], x) <= 0}
        k == IF before = {} THEN 0 ELSE CHOOSE i \in before : \A j \in before : j <= i
    IN  SubSeq(sorted, 1, k) \o <<x>> \o SubSeq(sorted, k + 1, Len(sorted))

RECURSIVE SortPapers(_)
SortPapers(list) ==
    IF list = <<>> THEN <<>>
    ELSE InsertPaper(SortPapers(SubSeq(list, 1, Len(list) - 1)), list[Len(list)])

\* ---------------------------------------------------------------- groupByYear (lines 88-96)

UndatedKey == [undated |-> TRUE, n |-> 0]
NumKey(y) == [undated |-> FALSE, n |-> y]

\* paper.year || 'Undated'
YearKey(p) == IF Truthy(p.year) THEN NumKey(p.year[1]) ELSE UndatedKey

\* grouped is the object as the sequence of its properties in insertion order
GroupPush(grouped, p) ==
    LET key == YearKey(p)
        at == {i \in 1..Len(grouped) : grouped[i].key = key}
    IN  IF at = {} THEN Append(grouped, [key |-> key, items |-> <<p>>])
        ELSE [i \in 1..Len(grouped) |->
                IF i \in at THEN [key |-> key, items |-> Append(grouped[i].items, p)]
                ELSE grouped[i]]

RECURSIVE groupByYear(_)
groupByYear(list) ==
    IF list = <<>> THEN <<>>
    ELSE GroupPush(groupByYear(SubSeq(list, 1, Len(list) - 1)), list[Len(list)])

\* ---------------------------------------------------------------- renderGroupedPapers (lines 98-130)

RECURSIVE AscendingNums(_)
AscendingNums(S) ==
    IF S = {} THEN <<>>
    ELSE LET m == CHOOSE x \in S : \A y \in S : x <= y
         IN  <<NumKey(m)>> \o AscendingNums(S \ {m})

\* Object.keys: integer keys in ascending order, then string keys in insertion order
ObjectKeys(grouped) ==
    LET keys == {grouped[i].key : i \in 1..Len(grouped)}
    IN  AscendingNums({k.n : k \in {x \in keys : ~x.undated}})
        \o (IF UndatedKey \in keys THEN <<UndatedKey>> ELSE <<>>)

CompareYears_undatedFirst(a, b) ==
    IF a.undated THEN -1
    ELSE IF b.undated THEN 1
    ELSE b.n - a.n

CompareYears(a, b) ==
    IF a.undated THEN 1
    ELSE IF b.undated THEN -1
    ELSE b.n - a.n

InsertYear(sorted, x) ==
    LET before == {i \in 1..Len(sorted) : CompareYears(sorted[i], x) <= 0}
        k == IF before = {} THEN 0 ELSE CHOOSE i \in before : \A j \in before : j <= i
    IN  SubSeq(sorted, 1, k) \o <<x>> \o SubSeq(sorted, k + 1, Len(sorted))

RECURSIVE SortYears(_)
SortYears(keys) ==
    IF keys = <<>> THEN <<>>
    ELSE InsertYear(SortYears(SubSeq(keys, 1, Len(keys) - 1)), keys[Len(keys)])

GroupOf(grouped, key) ==
    grouped[CHOOSE i \in 1..Len(grouped) : grouped[i].key = key].items

StaticContent == [kind |-> "static", sections |-> <<>>]
FallbackContent == [kind |-> "fallback", sections |-> <<>>]
PlaceholderContent == [kind |-> "placeholder", sections |-> <<>>]

\* the content of the container after renderGroupedPapers, the container being present;
\* a publication item stands for the element createPaperElement builds from it
renderGroupedPapers(grouped) ==
    LET years == SortYears(ObjectKeys(grouped))
    IN  IF Len(years) = 0 THEN PlaceholderContent
        ELSE [kind |-> "sections",
              sections |-> [i \in 1..Len(years) |->
                              [header |-> years[i], items |-> GroupOf(grouped, years[i])]]]

\* renderPublications (lines 74-86)
renderPublications(list) == renderGroupedPapers(groupByYear(SortPapers(list)))

\* ---------------------------------------------------------------- server responses

AbsentData == [kind |-> "absent", items |-> <<>>]
NotIterableData == [kind |-> "notIterable", items |-> <<>>]
ArrayData(items) == [kind |-> "array", items |-> items]

\* the values of the data property of a body: missing, a value that is no list
\* (a number, an object), or an array
DataVals(budget) == {AbsentData, NotIterableData} \cup {ArrayData(s) : s \in SeqsUpTo(Entries, budget)}

FailKinds == {"netFail", "badStatus", "parseFail"}

\* what one request ends with: fetch() rejecting (netFail), a status that is not ok
\* (badStatus), res.json() rejecting (parseFail), or a parsed body
Responses(budget) ==
    {[kind |-> k, data |-> AbsentData, next |-> 0] : k \in FailKinds}
    \cup {[kind |-> "ok", data |-> d, next |-> n] : d \in DataVals(budget), n \in 0..MaxCursor}

NoResponse == [kind |-> "none", next |-> 0]
Summary(resp) ==
    [kind |-> IF resp.kind = "ok" /\ resp.data.kind = "notIterable" THEN "notIterable" ELSE resp.kind,
     next |-> resp.next]

\* ---------------------------------------------------------------- fetchScholarData (lines 25-50)

InitialFails_statusIgnored(resp) == resp.kind \in {"netFail", "parseFail"}

\* lines 29-32: a rejected fetch, if (!res.ok) throw, a rejected res.json()
InitialFails(resp) == resp.kind # "ok"

\* data.data || []
DataOrEmpty(data) == IF data.kind = "absent" THEN ArrayData(<<>>) ELSE data

Concat_reversed(list, more) == more \o list

\* line 38: papers.concat(more)
Concat(list, more) == list \o more

\* ---------------------------------------------------------------- fetchRemainingPapers (lines 52-70)

\* lines 59-66: the request failed, or spreading data.data threw, both end the loop
PageFails(resp) == resp.kind # "ok" \/ resp.data.kind = "notIterable"

\* line 62: allPapers.push(...(data.data || []))
PushAll(list, data) == list \o DataOrEmpty(data).items

AfterPage_retryOnFailure(resp, offset) ==
    IF PageFails(resp) THEN [loop |-> TRUE, offset |-> offset]
    ELSE [loop |-> resp.next # 0, offset |-> resp.next]

\* lines 56-67: whether the while loop goes on after this response, and currentOffset
AfterPage(resp, offset) ==
    IF PageFails(resp) THEN [loop |-> FALSE, offset |-> offset]
    ELSE [loop |-> resp.next # 0, offset |-> resp.next]

Inc(n) == IF n < MaxRequests THEN n + 1 ELSE n

\* ---------------------------------------------------------------- the page

Init ==
    /\ pc = "Idle"
    /\ papers = ArrayData(<<>>)
    /\ allPapers = <<>>
    /\ currentOffset = 0
    /\ reqOffset = <<>>
    /\ requests = 0
    /\ lastResp = NoResponse
    /\ initialKind = "none"
    /\ received = <<>>
    /\ filterInput = <<>>
    /\ renderInput = <<>>
    /\ currentYear = <<>>
    /\ containerFound = <<>>
    /\ renderErrorCalls = 0
    /\ container = StaticContent
    /\ paper = <<>>
    /\ el = <<>>

LoadEnabled_retryAfterError(p) == p \in {"Idle", "ErrorRendered"}

\* lines 18-21: DOMContentLoaded fires once per page load
LoadEnabled(p) == p = "Idle"

\* lines 18-29: the listener calls fetchScholarData, which issues the initial request
Load ==
    /\ LoadEnabled(pc)
    /\ pc' = "AwaitInitial"
    /\ requests' = Inc(requests)
    /\ reqOffset' = <<>>
    /\ UNCHANGED <<papers, allPapers, currentOffset, lastResp, initialKind, received, filterInput,
                   renderInput, currentYear, containerFound, renderErrorCalls, container,
                   paper, el>>

\* lines 164-176
RenderError(hc) ==
    /\ pc' = "ErrorRendered"
    /\ renderErrorCalls' = renderErrorCalls + 1
    /\ containerFound' = <<hc>>
    /\ container' = IF hc THEN FallbackContent ELSE container

\* lines 38-49 (viaConcat) or 41-49: concat, filter, renderPublications, and the catch
Complete(p, viaConcat, more) ==
    \E cy \in CurrentYears, hc \in BOOLEAN :
        LET list == IF viaConcat THEN Concat(p.items, more) ELSE p.items
        IN  IF p.kind = "notIterable"
            THEN \* papers.concat or papers.filter is not a function
                 /\ papers' = p
                 /\ filterInput' = <<>>
                 /\ renderInput' = <<>>
                 /\ currentYear' = IF viaConcat THEN <<>> ELSE <<cy>>
                 /\ RenderError(hc)
            ELSE IF FilterThrows(list)
            THEN /\ papers' = ArrayData(list)
                 /\ filterInput' = <<list>>
                 /\ renderInput' = <<>>
                 /\ currentYear' = <<cy>>
                 /\ RenderError(hc)
            ELSE /\ papers' = ArrayData(list)
                 /\ filterInput' = <<list>>
                 /\ renderInput' = <<FilterRecent(list, CutoffYear(cy))>>
                 /\ currentYear' = <<cy>>
                 /\ containerFound' = <<hc>>
                 /\ container' = IF hc THEN renderPublications(FilterRecent(list, CutoffYear(cy)))
                                 ELSE container
                 /\ renderErrorCalls' = renderErrorCalls
                 /\ pc' = "Rendered"

\* lines 29-45: the initial request ends with resp
InitialResponse(resp) ==
    /\ pc = "AwaitInitial"
    /\ lastResp' = Summary(resp)
    /\ initialKind' = Summary(resp).kind
    /\ UNCHANGED <<paper, el>>
    /\ IF InitialFails(resp)
       THEN /\ \E hc \in BOOLEAN : RenderError(hc)
            /\ UNCHANGED <<papers, allPapers, currentOffset, reqOffset, requests, received,
                           filterInput, renderInput, currentYear>>
       ELSE /\ received' = DataOrEmpty(resp.data).items
            /\ IF resp.next # 0
               THEN /\ papers' = DataOrEmpty(resp.data)
                    /\ allPapers' = <<>>
                    /\ currentOffset' = resp.next
                    /\ reqOffset' = <<resp.next>>
                    /\ requests' = Inc(requests)
                    /\ pc' = "AwaitPage"
                    /\ UNCHANGED <<filterInput, renderInput, currentYear, containerFound,
                                   renderErrorCalls, container>>
               ELSE /\ Complete(DataOrEmpty(resp.data), FALSE, <<>>)
                    /\ UNCHANGED <<allPapers, currentOffset, reqOffset, requests>>

\* lines 56-67, then 38-45 when the loop ends: a follow-up request ends with resp
PageResponse(resp) ==
    /\ pc = "AwaitPage"
    /\ lastResp' = Summary(resp)
    /\ UNCHANGED <<paper, el, initialKind>>
    /\ allPapers' = IF PageFails(resp) THEN allPapers ELSE PushAll(allPapers, resp.data)
    /\ received' = IF PageFails(resp) THEN received ELSE received \o DataOrEmpty(resp.data).items
    /\ currentOffset' = AfterPage(resp, currentOffset).offset
    /\ IF AfterPage(resp, currentOffset).loop
       THEN /\ reqOffset' = <<AfterPage(resp, currentOffset).offset>>
            /\ requests' = Inc(requests)
            /\ pc' = "AwaitPage"
            /\ UNCHANGED <<papers, filterInput, renderInput, currentYear, containerFound,
                           renderErrorCalls, container>>
       ELSE /\ Complete(papers, TRUE, allPapers')
            /\ UNCHANGED <<reqOffset, requests>>

Budget == MaxRecords - Len(received)

\* the server sends a cursor that is followed only while the model counts requests
ReceiveInitial ==
    \E resp \in Responses(Budget) :
        /\ (~InitialFails(resp) /\ resp.next # 0) => requests < MaxRequests
        /\ InitialResponse(resp)

ReceivePage ==
    \E resp \in Responses(Budget) :
        /\ AfterPage(resp, currentOffset).loop => requests < MaxRequests
        /\ PageResponse(resp)

Next == Load \/ ReceiveInitial \/ ReceivePage

Spec == Init /\ [][Next]_vars

LiveBudget == LiveMaxRecords - Len(received)

\* every issued request ends, and the server may send cursors for ever
ReceiveInitialAny == \E resp \in Responses(LiveBudget) : InitialResponse(resp)

ReceivePageAny == \E resp \in Responses(LiveBudget) : PageResponse(resp)

LiveNext == Load \/ ReceiveInitialAny \/ ReceivePageAny

LiveSpec ==
    /\ Init
    /\ [][LiveNext]_vars
    /\ WF_vars(Load)
    /\ WF_vars(ReceiveInitialAny)
    /\ WF_vars(ReceivePageAny)

\* ---------------------------------------------------------------- renderPublications called on any list

RenderInit ==
    /\ pc = "RenderCall"
    /\ renderInput \in {<<list>> : list \in SeqsUpTo(Records, MaxRenderLen)}
    /\ papers = ArrayData(<<>>)
    /\ allPapers = <<>>
    /\ currentOffset = 0
    /\ reqOffset = <<>>
    /\ requests = 0
    /\ lastResp = NoResponse
    /\ initialKind = "none"
    /\ received = <<>>
    /\ filterInput = <<>>
    /\ currentYear = <<>>
    /\ containerFound = <<>>
    /\ renderErrorCalls = 0
    /\ container = StaticContent
    /\ paper = <<>>
    /\ el = <<>>

\* lines 74-86 and 98-130
RenderPublicationsCall ==
    /\ pc = "RenderCall"
    /\ pc' = "Rendered"
    /\ \E hc \in BOOLEAN :
        /\ containerFound' = <<hc>>
        /\ container' = IF hc THEN renderPublications(renderInput[1]) ELSE container
    /\ UNCHANGED <<papers, allPapers, currentOffset, reqOffset, requests, lastResp, initialKind,
                   received, filterInput, renderInput, currentYear, renderErrorCalls, paper, el>>

RenderSpec == RenderInit /\ [][RenderPublicationsCall]_vars

\* ---------------------------------------------------------------- createPaperElement (lines 132-160)

\* "razaviyayn" stands for any substring /razaviyayn/i matches
Chars == {"a", "<", "&", "\"", "razaviyayn"}
Texts == SeqsUpTo(Chars, MaxTextLen)

PaperTexts ==
    {[title |-> t, url |-> u, venue |-> v, authors |-> a] :
        t \in Texts, u \in Texts, v \in Texts, a \in SeqsUpTo(Texts, MaxAuthors)}

\* lines 228-232: the serialisation of a text node replaces &, < and >
EscapeChar(c) ==
    IF c = "&" THEN <<"&", "a", "m", "p", ";">>
    ELSE IF c = "<" THEN <<"&", "l", "t", ";">>
    ELSE IF c = ">" THEN <<"&", "g", "t", ";">>
    ELSE <<c>>

RECURSIVE escapeHtml(_)
escapeHtml(str) ==
    IF str = <<>> THEN <<>> ELSE EscapeChar(Head(str)) \o escapeHtml(Tail(str))

OrDefault(text, default) == IF text = <<>> THEN default ELSE text

\* lines 141-148: one author, escaped, emphasised when the name matches
AuthorMarkup(name) ==
    LET escaped == escapeHtml(name)
    IN  IF \E i \in 1..Len(escaped) : escaped[i] = "razaviyayn"
        THEN <<"<strong>">> \o escaped \o <<"</strong>">>
        ELSE escaped

\* .join(', ')
RECURSIVE Join(_)
Join(parts) ==
    IF parts = <<>> THEN <<>>
    ELSE IF Len(parts) = 1 THEN parts[1]
    ELSE parts[1] \o <<", ">> \o Join(Tail(parts))

\* what the template of lines 151-157 interpolates: the href, the title, and the
\* authors and venue paragraphs (<<>> when the paragraph is left out)
createPaperElement(p) ==
    [href |-> OrDefault(p.url, <<"#">>),
     title |-> escapeHtml(OrDefault(p.title, <<"Untitled">>)),
     authors |-> Join([i \in 1..Len(p.authors) |-> AuthorMarkup(p.authors[i])]),
     venue |-> escapeHtml(p.venue)]

ElementInit ==
    /\ pc = "ElementCall"
    /\ paper \in {<<p>> : p \in PaperTexts}
    /\ el = <<>>
    /\ papers = ArrayData(<<>>)
    /\ allPapers = <<>>
    /\ currentOffset = 0
    /\ reqOffset = <<>>
    /\ requests = 0
    /\ lastResp = NoResponse
    /\ initialKind = "none"
    /\ received = <<>>
    /\ filterInput = <<>>
    /\ renderInput = <<>>
    /\ currentYear = <<>>
    /\ containerFound = <<>>
    /\ renderErrorCalls = 0
    /\ container = StaticContent

CreatePaperElementCall ==
    /\ pc = "ElementCall"
    /\ pc' = "ElementDone"
    /\ el' = <<createPaperElement(paper[1])>>
    /\ UNCHANGED <<papers, allPapers, currentOffset, reqOffset, requests, lastResp, initialKind,
                   received, filterInput, renderInput, currentYear, containerFound,
                   renderErrorCalls, container, paper>>

ElementSpec == ElementInit /\ [][CreatePaperElementCall]_vars

\* ---------------------------------------------------------------- claims

Terminal == {"Rendered", "ErrorRendered"}

\* the lifecycle state of the page
Lifecycle ==
    IF pc = "Idle" THEN "Idle"
    ELSE IF pc \in {"AwaitInitial", "AwaitPage"} THEN "Fetching"
    ELSE pc

\* C1: once the initial request has failed (fetch rejected, status not ok, body not
\* parseable), the run is over with renderError called once, only the initial request
\* issued, neither the filter nor renderPublications run, and the container (when the
\* page has one) holding the fallback link.
C1_InitialFailureShowsFallback ==
    initialKind \in FailKinds =>
        /\ pc = "ErrorRendered"
        /\ requests = 1
        /\ reqOffset = <<>>
        /\ filterInput = <<>>
        /\ renderInput = <<>>
        /\ renderErrorCalls = 1
        /\ containerFound # <<>>
        /\ (containerFound = <<TRUE>> => container = FallbackContent)

C1_Witness ==
    /\ initialKind = "badStatus"
    /\ pc = "ErrorRendered"
    /\ container = FallbackContent

\* C2: when the initial request succeeded and a follow-up request fails, no request is
\* left in flight, the filter gets exactly the items of the pages received before the
\* failure, and the run ends with renderPublications, not with renderError.
C2_PaginationFailureKeepsPartial ==
    (initialKind = "ok" /\ reqOffset # <<>> /\ lastResp.kind \in FailKinds) =>
        /\ pc = "Rendered"
        /\ filterInput = <<received>>
        /\ renderInput # <<>>
        /\ renderErrorCalls = 0

\* C3: when the initial request ended with a success status and a parseable body,
\* renderError is never called and the run ends in Rendered.
C3_NoErrorAfterInitialSuccess ==
    initialKind \in {"ok", "notIterable"} =>
        /\ renderErrorCalls = 0
        /\ pc # "ErrorRendered"

\* C4: every follow-up request carries the cursor of the response before it; when every
\* request has succeeded the run ended on a response without cursor, and the list the
\* filter gets is the items of the pages in arrival order, none lost or duplicated.
C4_PagesConcatenatedInOrder ==
    /\ pc = "AwaitPage" =>
        /\ lastResp.kind \notin FailKinds
        /\ lastResp.next # 0
        /\ reqOffset = <<lastResp.next>>
    /\ (pc \in Terminal /\ initialKind = "ok" /\ lastResp.kind = "ok") =>
        /\ lastResp.next = 0
        /\ filterInput = <<received>>

C4_Witness ==
    /\ pc = "Rendered"
    /\ initialKind = "ok"
    /\ lastResp.kind = "ok"
    /\ requests = 2
    /\ Len(allPapers) = 1
    /\ Len(filterInput[1]) = 3
    /\ filterInput[1][1] # filterInput[1][2]
    /\ filterInput[1][2] # filterInput[1][3]

\* C5: the list given to renderPublications is exactly the fetched records whose year is
\* present and at least currentYear - 4 + 1, in the fetched order.
C5_FilterKeepsRecentYears ==
    renderInput # <<>> =>
        /\ filterInput # <<>>
        /\ currentYear # <<>>
        /\ renderInput[1] =
             SelectSeq(filterInput[1],
                       LAMBDA p : /\ ~p.isNull
                                  /\ p.year # <<>>
                                  /\ p.year[1] >= currentYear[1] - RECENT_YEAR_COUNT + 1)

C5_Witness ==
    /\ pc = "Rendered"
    /\ currentYear = <<LastCurrentYear>>
    /\ Len(filterInput[1]) = 3
    /\ Len(renderInput[1]) = 1
    /\ \E i \in 1..3 : filterInput[1][i].year = <<LastCurrentYear - RECENT_YEAR_COUNT>>
    /\ \E i \in 1..3 : filterInput[1][i].year = <<0>>

\* the publication items of the container, in display order
RECURSIVE Flatten(_)
Flatten(sections) ==
    IF sections = <<>> THEN <<>> ELSE Head(sections).items \o Flatten(Tail(sections))

Shown == Flatten(container.sections)

\* C6: in the displayed order, a record of a greater year precedes a record of a smaller
\* year, and of two records of the same year the one with more citations (a missing
\* count being 0) precedes the other.
C6_DisplayOrder ==
    (pc = "Rendered" /\ containerFound = <<TRUE>>) =>
        \A i, j \in 1..Len(Shown) :
            LET A == Shown[i]
                B == Shown[j]
            IN  /\ (A.year # <<>> /\ B.year # <<>> /\ A.year[1] > B.year[1]) => i < j
                /\ (A.year = B.year /\ OrZero(A.citationCount) > OrZero(B.citationCount)) => i < j

C6_Witness ==
    /\ pc = "Rendered"
    /\ Len(Shown) = 3
    /\ Shown[1].year = Shown[2].year
    /\ OrZero(Shown[1].citationCount) > OrZero(Shown[2].citationCount)
    /\ Shown[3].year # <<>>
    /\ Shown[3].year[1] > 0
    /\ Shown[2].year[1] > Shown[3].year[1]
    /\ renderInput[1] # Shown

NoYear(p) == p.year = <<>>

CountNoYear(list) == Cardinality({i \in 1..Len(list) : NoYear(list[i])})

\* C7: when the list has a record without a year, the records without a year are all in
\* one Undated section, that section is the last one, and the sections before it have
\* numeric years in descending order.
C7_UndatedLast ==
    (pc = "Rendered" /\ containerFound = <<TRUE>>
        /\ \E i \in 1..Len(renderInput[1]) : NoYear(renderInput[1][i])) =>
        LET sections == container.sections
            n == Len(sections)
        IN  /\ container.kind = "sections"
            /\ sections[n].header = UndatedKey
            /\ CountNoYear(sections[n].items) = CountNoYear(renderInput[1])
            /\ \A k \in 1..(n - 1) :
                /\ ~sections[k].header.undated
                /\ CountNoYear(sections[k].items) = 0
                /\ k + 1 < n => sections[k].header.n > sections[k + 1].header.n

C7_Witness ==
    /\ pc = "Rendered"
    /\ container.kind = "sections"
    /\ Len(container.sections) = 3
    /\ NoYear(renderInput[1][1])
    /\ container.sections[3].header = UndatedKey
    /\ renderInput[1][2].year[1] < renderInput[1][3].year[1]

\* C8: every value of the record that createPaperElement puts into the markup (the link
\* target, the title, the venue, each author name) is the escapeHtml of that value.
C8_AllInsertedValuesEscaped ==
    pc = "ElementDone" =>
        LET p == paper[1]
        IN  /\ el[1].title = escapeHtml(OrDefault(p.title, <<"Untitled">>))
            /\ el[1].venue = escapeHtml(p.venue)
            /\ el[1].authors = Join([i \in 1..Len(p.authors) |-> AuthorMarkup(p.authors[i])])
            /\ el[1].href = escapeHtml(OrDefault(p.url, <<"#">>))

LifecycleStep ==
    /\ Lifecycle' # Lifecycle =>
        <<Lifecycle, Lifecycle'>> \in {<<"Idle", "Fetching">>, <<"Fetching", "Rendered">>,
                                      <<"Fetching", "ErrorRendered">>}
    /\ pc \in Terminal => (pc' = pc /\ requests' = requests /\ container' = container)

\* C9: the lifecycle only steps Idle -> Fetching, Fetching -> Rendered and
\* Fetching -> ErrorRendered; after Rendered or ErrorRendered no request is issued and
\* the container is not written again.
C9_LifecycleTransitions == [][LifecycleStep]_vars

C9_Witness ==
    /\ pc = "ErrorRendered"
    /\ requests = MaxRequests
    /\ container = FallbackContent

\* C10 as stated: every run in which each request ends reaches Rendered or ErrorRendered.
C10_AlwaysTerminates == <>(pc \in Terminal)

\* C10 amended: every run in which each request ends reaches Rendered or ErrorRendered,
\* unless from some point on every follow-up page is accepted and carries a further
\* cursor; then the run stays in Fetching for ever.
C10_TerminatesUnlessCursorsForever ==
    \/ <>(pc \in Terminal)
    \/ <>[](pc = "AwaitPage" /\ lastResp.kind = "ok" /\ lastResp.next # 0)

C10_Witness ==
    /\ pc = "Rendered"
    /\ requests = MaxRequests
    /\ lastResp.kind = "ok"
    /\ lastResp.next = 0
    /\ Len(allPapers) = 1

====
